---- MODULE Spec2Model ----
(***************************************************************************)
(* Model of the CDK entry script (src/unnamed/part_000) and of the two     *)
(* stack constructors it calls (src/lib/dns-stack.ts,                      *)
(* src/lib/static-website-stack.ts).                                       *)
(*                                                                         *)
(* The script is a straight-line program: read the configuration from the  *)
(* CDK context and the process environment, validate the five required     *)
(* fields, construct four stacks, add three dependencies, synthesize.      *)
(* Each statement of the script is one action; pc is the script's          *)
(* position.  The inputs (context and environment) are drawn in Init.      *)
(*                                                                         *)
(* JavaScript values are records: Undefined, or Str(s) for a string s.     *)
(* Names whose case is converted by the script (the configuration field    *)
(* names and the environment variable names) are tuples of characters so   *)
(* that toUpperCase can be modelled character by character; every other    *)
(* string is a TLA+ string and template literals are concatenations.       *)
(***************************************************************************)
EXTENDS Integers, Sequences, FiniteSets, TLC

VARIABLES context, env, pc, config, fieldIdx, error, stacks, dependencies,
          synthCount

vars == <<context, env, pc, config, fieldIdx, error, stacks, dependencies,
          synthCount>>

---------------------------------------------------------------------------
(* JavaScript values *)

Undefined == [type |-> "undefined"]

Str(s) == [type |-> "string", str |-> s]

\* JavaScript truthiness of a value: undefined and "" are falsy.
Truthy(v) == v.type = "string" /\ v.str # ""

\* a ?? b: only undefined falls through.
NullishOr(a, b) == IF a.type # "undefined" THEN a ELSE b

\* a || b
Or(a, b) == IF Truthy(a) THEN a ELSE b

---------------------------------------------------------------------------
(* Names *)

dnsAccount == <<"d", "n", "s", "A", "c", "c", "o", "u", "n", "t">>

betaAccount == <<"b", "e", "t", "a", "A", "c", "c", "o", "u", "n", "t">>

gammaAccount == <<"g", "a", "m", "m", "a", "A", "c", "c", "o", "u", "n", "t">>

prodAccount == <<"p", "r", "o", "d", "A", "c", "c", "o", "u", "n", "t">>

domainName == <<"d", "o", "m", "a", "i", "n", "N", "a", "m", "e">>

region == <<"r", "e", "g", "i", "o", "n">>

DNS_ACCOUNT_ID ==
    <<"D", "N", "S", "_", "A", "C", "C", "O", "U", "N", "T", "_", "I", "D">>

BETA_ACCOUNT_ID ==
    <<"B", "E", "T", "A", "_", "A", "C", "C", "O", "U", "N", "T", "_", "I", "D">>

GAMMA_ACCOUNT_ID ==
    <<"G", "A", "M", "M", "A", "_", "A", "C", "C", "O", "U", "N", "T", "_", "I", "D">>

PROD_ACCOUNT_ID ==
    <<"P", "R", "O", "D", "_", "A", "C", "C", "O", "U", "N", "T", "_", "I", "D">>

DOMAIN_NAME == <<"D", "O", "M", "A", "I", "N", "_", "N", "A", "M", "E">>

\* An environment variable the script does not read.
REGION == <<"R", "E", "G", "I", "O", "N">>

\* The keys of the config object, in declaration order.
ConfigKeys ==
    <<dnsAccount, betaAccount, gammaAccount, prodAccount, domainName, region>>

\* The required fields with the first two exchanged.
requiredFieldsReordered ==
    <<betaAccount, dnsAccount, gammaAccount, prodAccount, domainName>>

requiredFields ==
    <<dnsAccount, betaAccount, gammaAccount, prodAccount, domainName>>

Range(s) == {s[i] : i \in DOMAIN s}

\* String.prototype.toUpperCase on one character (ASCII letters).
UpperChar(c) ==
    CASE c = "a" -> "A" [] c = "b" -> "B" [] c = "c" -> "C" [] c = "d" -> "D"
      [] c = "e" -> "E" [] c = "f" -> "F" [] c = "g" -> "G" [] c = "h" -> "H"
      [] c = "i" -> "I" [] c = "j" -> "J" [] c = "k" -> "K" [] c = "l" -> "L"
      [] c = "m" -> "M" [] c = "n" -> "N" [] c = "o" -> "O" [] c = "p" -> "P"
      [] c = "q" -> "Q" [] c = "r" -> "R" [] c = "s" -> "S" [] c = "t" -> "T"
      [] c = "u" -> "U" [] c = "v" -> "V" [] c = "w" -> "W" [] c = "x" -> "X"
      [] c = "y" -> "Y" [] c = "z" -> "Z" [] OTHER -> c

toUpperCase(name) == [i \in DOMAIN name |-> UpperChar(name[i])]

---------------------------------------------------------------------------
(* Inputs *)

\* Number of distinct domain names the context may supply.
NumDomainNames == 1

RECURSIVE Label(_)
Label(i) == IF i = 0 THEN "" ELSE "x" \o Label(i - 1)

\* "x.io", "xx.io", ...
CtxDomainPool == {Label(i) \o ".io" : i \in 1..NumDomainNames}

CtxAccountPool == {"111111111111"}

EnvAccountPool == {"222222222222"}

EnvDomainPool == {"example.com"}

CtxRegionPool == {"eu-west-1"}

EnvRegionPool == {"ap-south-1"}

Falsy == {Undefined, Str("")}

\* The environment variables the inputs may set.
EnvVars ==
    {DNS_ACCOUNT_ID, BETA_ACCOUNT_ID, GAMMA_ACCOUNT_ID, PROD_ACCOUNT_ID,
     DOMAIN_NAME, REGION}

\* The values the context may hold under a key: absent, empty or a string.
ContextValues(k) ==
    Falsy \cup {Str(s) : s \in IF k = domainName THEN CtxDomainPool
                               ELSE IF k = region THEN CtxRegionPool
                               ELSE CtxAccountPool}

\* The values an environment variable may hold: unset, empty or a string
\* (REGION: unset or a string).
EnvValues(n) ==
    IF n = REGION
    THEN {Undefined} \cup {Str(s) : s \in EnvRegionPool}
    ELSE Falsy \cup {Str(s) : s \in IF n = DOMAIN_NAME THEN EnvDomainPool
                                    ELSE EnvAccountPool}

Contexts ==
    {c \in [Range(ConfigKeys) -> UNION {ContextValues(k) : k \in Range(ConfigKeys)}] :
        \A k \in Range(ConfigKeys) : c[k] \in ContextValues(k)}

Envs ==
    {e \in [EnvVars -> UNION {EnvValues(n) : n \in EnvVars}] :
        \A n \in EnvVars : e[n] \in EnvValues(n)}

---------------------------------------------------------------------------
(* The entry script: configuration *)

\* app.node.tryGetContext(key)
tryGetContext(ctx, key) == IF key \in DOMAIN ctx THEN ctx[key] ELSE Undefined

\* process.env[name]
processEnv(e, name) == IF name \in DOMAIN e THEN e[name] ELSE Undefined

\* The config object literal.
Config(ctx, e) ==
    [k \in Range(ConfigKeys) |->
        CASE k = dnsAccount ->
               Or(tryGetContext(ctx, dnsAccount), processEnv(e, DNS_ACCOUNT_ID))
          [] k = betaAccount ->
               Or(tryGetContext(ctx, betaAccount), processEnv(e, BETA_ACCOUNT_ID))
          [] k = gammaAccount ->
               Or(tryGetContext(ctx, gammaAccount), processEnv(e, GAMMA_ACCOUNT_ID))
          [] k = prodAccount ->
               Or(tryGetContext(ctx, prodAccount), processEnv(e, PROD_ACCOUNT_ID))
          [] k = domainName ->
               Or(tryGetContext(ctx, domainName), processEnv(e, DOMAIN_NAME))
          [] k = region ->
               Or(tryGetContext(ctx, region), Str("us-east-1"))]

\* config[field] === undefined: an empty string counts as present.
MissingOnlyUndefined(v) == v.type = "undefined"

\* !config[field]
Missing(v) == ~Truthy(v)

\* The Error thrown by the validation loop; the message is kept in parts:
\* "Missing required configuration: <field>. Set via --context <contextKey>=value
\*  or environment variable <envVar>".
MissingError(field) ==
    [message  |-> "Missing required configuration",
     field    |-> field,
     contextKey |-> field,
     envVar   |-> toUpperCase(field)]

NoError == [message |-> "none"]

\* Template-literal conversion of a value to a string.
Interpolate(v) == IF v.type = "undefined" THEN "undefined" ELSE v.str

---------------------------------------------------------------------------
(* The stack constructors *)

\* A deploy-time attribute of a construct (a CDK token), as a string.
Token(stackId, construct, attr) ==
    "${" \o stackId \o "/" \o construct \o "." \o attr \o "}"

\* new iam.AccountPrincipal(accountId)
AccountPrincipal(accountId) == [principal |-> "AccountPrincipal", accountId |-> accountId]

\* The first statement added to the role's policy.
RecordManagementStatement(hostedZoneArn) ==
    [effect    |-> "ALLOW",
     actions   |-> <<"route53:ChangeResourceRecordSets",
                     "route53:GetChange",
                     "route53:ListResourceRecordSets">>,
     resources |-> <<hostedZoneArn, "arn:aws:route53:::change/*">>]

\* The second statement, also allowed to change record sets.
CertificateValidationStatementWide ==
    [effect    |-> "ALLOW",
     actions   |-> <<"route53:GetHostedZone", "route53:ListHostedZones",
                     "route53:ChangeResourceRecordSets">>,
     resources |-> <<"*">>]

\* The second statement added to the role's policy.
CertificateValidationStatement ==
    [effect    |-> "ALLOW",
     actions   |-> <<"route53:GetHostedZone", "route53:ListHostedZones">>,
     resources |-> <<"*">>]

\* new DnsStack(app, id, props)
DnsStack(id, props) ==
    LET hostedZone ==
            [zoneName      |-> props.domainName,
             hostedZoneId  |-> Token(id, "RootHostedZone", "Id"),
             hostedZoneArn |-> "arn:aws:route53:::hostedzone/"
                                  \o Token(id, "RootHostedZone", "Id"),
             removalPolicy |-> "RETAIN_ON_UPDATE_OR_DELETE"]
        crossAccountRole ==
            [roleName    |-> "CrossAccountDnsManagementRole",
             assumedBy   |-> [i \in DOMAIN props.trustedAccountIds |->
                                 AccountPrincipal(props.trustedAccountIds[i])],
             description |-> "Role allowing cross-account DNS record management",
             roleArn     |-> Token(id, "CrossAccountDnsRole", "Arn"),
             policy      |-> <<RecordManagementStatement(hostedZone.hostedZoneArn),
                               CertificateValidationStatement>>]
        outputs ==
            ("HostedZoneId" :>
                [value       |-> hostedZone.hostedZoneId,
                 description |-> "Hosted Zone ID",
                 exportName  |-> id \o "-HostedZoneId"])
            @@ ("HostedZoneName" :>
                [value       |-> hostedZone.zoneName,
                 description |-> "Hosted Zone Name",
                 exportName  |-> id \o "-HostedZoneName"])
            @@ ("CrossAccountRoleArn" :>
                [value       |-> crossAccountRole.roleArn,
                 description |-> "ARN of the cross-account DNS management role",
                 exportName  |-> id \o "-CrossAccountRoleArn"])
            @@ ("NameServers" :>
                [value       |-> Token(id, "RootHostedZone", "NameServers"),
                 description |-> "Name servers for the hosted zone",
                 exportName  |-> ""])
    IN  [kind             |-> "DnsStack",
         account          |-> props.env.account,
         region           |-> props.env.region,
         hostedZone       |-> hostedZone,
         crossAccountRole |-> crossAccountRole,
         outputs          |-> outputs]

\* A bucket name without the stage.
BucketNameNoStage(stageName, account) == "website-" \o account

\* The bucketName template literal.
BucketName(stageName, account) == stageName \o "-website-" \o account

\* A website URL with the plain-text scheme.
WebsiteUrlInsecure(domain) == "http://" \o domain

\* The WebsiteUrl template literal.
WebsiteUrl(domain) == "https://" \o domain

\* new StaticWebsiteStack(app, id, props)
StaticWebsiteStack(id, props) ==
    LET account == props.env.account
        bucket ==
            [bucketName           |-> BucketName(props.stageName, account),
             websiteIndexDocument |-> "index.html",
             publicReadAccess     |-> FALSE,
             blockPublicAccess    |-> "BLOCK_ALL",
             removalPolicy        |-> "DESTROY",
             autoDeleteObjects    |-> TRUE]
        hostedZone ==
            [hostedZoneId |-> props.hostedZoneId,
             zoneName     |-> props.hostedZoneName]
        certificate ==
            [domainName |-> props.domainName,
             validation |-> [method |-> "DNS", hostedZone |-> hostedZone]]
        oai == [comment |-> "OAI for " \o props.domainName]
        distribution ==
            [origin               |-> [bucket |-> bucket.bucketName,
                                       originAccessIdentity |-> oai],
             viewerProtocolPolicy |-> "REDIRECT_TO_HTTPS",
             cachePolicy          |-> "CACHING_OPTIMIZED",
             domainNames          |-> <<props.domainName>>,
             certificate          |-> certificate,
             defaultRootObject    |-> "index.html",
             errorResponses       |->
                 <<[httpStatus |-> 404, responseHttpStatus |-> 404,
                    responsePagePath |-> "/error.html"],
                   [httpStatus |-> 403, responseHttpStatus |-> 403,
                    responsePagePath |-> "/error.html"]>>]
        aliasRecord ==
            [zone       |-> hostedZone,
             recordName |-> props.domainName,
             target     |-> Token(id, "Distribution", "DomainName")]
        deployment ==
            [destinationBucket |-> bucket.bucketName,
             distributionPaths |-> <<"/*">>]
        outputs ==
            ("BucketName" :>
                [value       |-> Token(id, "SiteBucket", "Ref"),
                 description |-> "S3 Bucket Name"])
            @@ ("DistributionId" :>
                [value       |-> Token(id, "Distribution", "Id"),
                 description |-> "CloudFront Distribution ID"])
            @@ ("DistributionDomainName" :>
                [value       |-> Token(id, "Distribution", "DomainName"),
                 description |-> "CloudFront Distribution Domain Name"])
            @@ ("WebsiteUrl" :>
                [value       |-> WebsiteUrl(props.domainName),
                 description |-> "Website URL"])
    IN  [kind         |-> "StaticWebsiteStack",
         account      |-> account,
         region       |-> props.env.region,
         stageName    |-> props.stageName,
         domainName   |-> props.domainName,
         bucket       |-> bucket,
         hostedZone   |-> hostedZone,
         certificate  |-> certificate,
         readGrants   |-> {oai},
         distribution |-> distribution,
         aliasRecord  |-> aliasRecord,
         deployment   |-> deployment,
         outputs      |-> outputs]

---------------------------------------------------------------------------
(* The entry script: stack declarations *)

\* Only the staging accounts are trusted.
TrustedAccountIdsStagingOnly(cfg) ==
    <<Interpolate(cfg[betaAccount]), Interpolate(cfg[gammaAccount])>>

\* The trustedAccountIds array literal.
TrustedAccountIds(cfg) ==
    <<Interpolate(cfg[betaAccount]),
      Interpolate(cfg[gammaAccount]),
      Interpolate(cfg[prodAccount])>>

\* The props object passed to new DnsStack.
DnsStackProps(cfg) ==
    [env               |-> [account |-> Interpolate(cfg[dnsAccount]),
                            region  |-> Interpolate(cfg[region])],
     domainName        |-> Interpolate(cfg[domainName]),
     trustedAccountIds |-> TrustedAccountIds(cfg)]

\* The props object passed to new StaticWebsiteStack for beta.
BetaStackProps(cfg, dnsStack) ==
    [env                 |-> [account |-> Interpolate(cfg[betaAccount]),
                              region  |-> Interpolate(cfg[region])],
     domainName          |-> "beta." \o Interpolate(cfg[domainName]),
     hostedZoneId        |-> dnsStack.hostedZone.hostedZoneId,
     hostedZoneName      |-> Interpolate(cfg[domainName]),
     crossAccountRoleArn |-> dnsStack.crossAccountRole.roleArn,
     stageName           |-> "beta"]

\* The props object passed to new StaticWebsiteStack for gamma.
GammaStackProps(cfg, dnsStack) ==
    [env                 |-> [account |-> Interpolate(cfg[gammaAccount]),
                              region  |-> Interpolate(cfg[region])],
     domainName          |-> "gamma." \o Interpolate(cfg[domainName]),
     hostedZoneId        |-> dnsStack.hostedZone.hostedZoneId,
     hostedZoneName      |-> Interpolate(cfg[domainName]),
     crossAccountRoleArn |-> dnsStack.crossAccountRole.roleArn,
     stageName           |-> "gamma"]

\* The props object passed to new StaticWebsiteStack for prod.
ProdStackProps(cfg, dnsStack) ==
    [env                 |-> [account |-> Interpolate(cfg[prodAccount]),
                              region  |-> Interpolate(cfg[region])],
     domainName          |-> Interpolate(cfg[domainName]),
     hostedZoneId        |-> dnsStack.hostedZone.hostedZoneId,
     hostedZoneName      |-> Interpolate(cfg[domainName]),
     crossAccountRoleArn |-> dnsStack.crossAccountRole.roleArn,
     stageName           |-> "prod"]

WebsiteStackIds ==
    {"BetaStaticWebsiteStack", "GammaStaticWebsiteStack", "ProdStaticWebsiteStack"}

StackIds == {"DnsStack"} \cup WebsiteStackIds

\* The dependency recorded the wrong way round.
addDependencyReversed(deps, stackId, targetId) == deps \cup {<<targetId, stackId>>}

\* stack.addDependency(target)
addDependency(deps, stackId, targetId) == deps \cup {<<stackId, targetId>>}

---------------------------------------------------------------------------
(* The state machine *)

Init ==
    /\ context \in Contexts
    /\ env \in Envs
    /\ pc = "config"
    /\ config = [k \in Range(ConfigKeys) |-> Undefined]
    /\ fieldIdx = 1
    /\ error = NoError
    /\ stacks = <<>>
    /\ dependencies = {}
    /\ synthCount = 0

\* const config = { ... }
ReadConfig ==
    /\ pc = "config"
    /\ config' = Config(context, env)
    /\ pc' = "validate"
    /\ UNCHANGED <<context, env, fieldIdx, error, stacks, dependencies, synthCount>>

\* One iteration of the validation loop whose field is missing: throw.
ValidateThrow ==
    /\ pc = "validate"
    /\ fieldIdx <= Len(requiredFields)
    /\ Missing(config[requiredFields[fieldIdx]])
    /\ error' = MissingError(requiredFields[fieldIdx])
    /\ pc' = "error"
    /\ UNCHANGED <<context, env, config, fieldIdx, stacks, dependencies, synthCount>>

\* One iteration of the validation loop whose field is present: next field.
ValidatePass ==
    /\ pc = "validate"
    /\ fieldIdx <= Len(requiredFields)
    /\ ~Missing(config[requiredFields[fieldIdx]])
    /\ fieldIdx' = fieldIdx + 1
    /\ pc' = IF fieldIdx' > Len(requiredFields) THEN "dnsStack" ELSE "validate"
    /\ UNCHANGED <<context, env, config, error, stacks, dependencies, synthCount>>

\* const dnsStack = new DnsStack(app, "DnsStack", ...)
NewDnsStack ==
    /\ pc = "dnsStack"
    /\ stacks' = stacks @@ ("DnsStack" :> DnsStack("DnsStack", DnsStackProps(config)))
    /\ pc' = "betaStack"
    /\ UNCHANGED <<context, env, config, fieldIdx, error, dependencies, synthCount>>

\* const betaStack = new StaticWebsiteStack(app, "BetaStaticWebsiteStack", ...)
NewBetaStack ==
    /\ pc = "betaStack"
    /\ stacks' = stacks @@ ("BetaStaticWebsiteStack" :>
                    StaticWebsiteStack("BetaStaticWebsiteStack",
                                       BetaStackProps(config, stacks["DnsStack"])))
    /\ pc' = "gammaStack"
    /\ UNCHANGED <<context, env, config, fieldIdx, error, dependencies, synthCount>>

\* const gammaStack = new StaticWebsiteStack(app, "GammaStaticWebsiteStack", ...)
NewGammaStack ==
    /\ pc = "gammaStack"
    /\ stacks' = stacks @@ ("GammaStaticWebsiteStack" :>
                    StaticWebsiteStack("GammaStaticWebsiteStack",
                                       GammaStackProps(config, stacks["DnsStack"])))
    /\ pc' = "prodStack"
    /\ UNCHANGED <<context, env, config, fieldIdx, error, dependencies, synthCount>>

\* const prodStack = new StaticWebsiteStack(app, "ProdStaticWebsiteStack", ...)
NewProdStack ==
    /\ pc = "prodStack"
    /\ stacks' = stacks @@ ("ProdStaticWebsiteStack" :>
                    StaticWebsiteStack("ProdStaticWebsiteStack",
                                       ProdStackProps(config, stacks["DnsStack"])))
    /\ pc' = "betaDependency"
    /\ UNCHANGED <<context, env, config, fieldIdx, error, dependencies, synthCount>>

\* betaStack.addDependency(dnsStack)
BetaAddDependency ==
    /\ pc = "betaDependency"
    /\ dependencies' = addDependency(dependencies, "BetaStaticWebsiteStack", "DnsStack")
    /\ pc' = "gammaDependency"
    /\ UNCHANGED <<context, env, config, fieldIdx, error, stacks, synthCount>>

\* gammaStack.addDependency(dnsStack)
GammaAddDependency ==
    /\ pc = "gammaDependency"
    /\ dependencies' = addDependency(dependencies, "GammaStaticWebsiteStack", "DnsStack")
    /\ pc' = "prodDependency"
    /\ UNCHANGED <<context, env, config, fieldIdx, error, stacks, synthCount>>

\* prodStack.addDependency(dnsStack)
ProdAddDependency ==
    /\ pc = "prodDependency"
    /\ dependencies' = addDependency(dependencies, "ProdStaticWebsiteStack", "DnsStack")
    /\ pc' = "synth"
    /\ UNCHANGED <<context, env, config, fieldIdx, error, stacks, synthCount>>

\* app.synth()
Synth ==
    /\ pc = "synth"
    /\ synthCount' = synthCount + 1
    /\ pc' = "done"
    /\ UNCHANGED <<context, env, config, fieldIdx, error, stacks, dependencies>>

Next ==
    \/ ReadConfig
    \/ ValidateThrow
    \/ ValidatePass
    \/ NewDnsStack
    \/ NewBetaStack
    \/ NewGammaStack
    \/ NewProdStack
    \/ BetaAddDependency
    \/ GammaAddDependency
    \/ ProdAddDependency
    \/ Synth

Spec == Init /\ [][Next]_vars

---------------------------------------------------------------------------
(* Vocabulary of the properties, stated independently of the script *)

\* The order in which the required fields are to be reported.
FieldOrder == <<dnsAccount, betaAccount, gammaAccount, prodAccount, domainName>>

\* The environment variable documented for each required field.
DocumentedEnvVar(f) ==
    CASE f = dnsAccount   -> DNS_ACCOUNT_ID
      [] f = betaAccount  -> BETA_ACCOUNT_ID
      [] f = gammaAccount -> GAMMA_ACCOUNT_ID
      [] f = prodAccount  -> PROD_ACCOUNT_ID
      [] f = domainName   -> DOMAIN_NAME

\* Context first, environment second.
Resolved(f) == IF Truthy(context[f]) THEN context[f] ELSE env[DocumentedEnvVar(f)]

\* Positions in FieldOrder of the fields that resolve to a falsy value.
MissingPositions == {i \in DOMAIN FieldOrder : ~Truthy(Resolved(FieldOrder[i]))}

Min(S) == CHOOSE m \in S : \A n \in S : m <= n

Declared == DOMAIN stacks

DeclaredWebsites == Declared \cap WebsiteStackIds

AllDependencies == {<<w, "DnsStack">> : w \in WebsiteStackIds}

\* process.env with one more variable set.
SetEnv(e, name, v) ==
    [n \in DOMAIN e \cup {name} |-> IF n = name THEN v ELSE e[n]]

---------------------------------------------------------------------------
(* C1: whenever some required field resolves (context, then environment) to *)
(* a missing or empty value, the script never gets past validation: it     *)
(* stops with the "Missing required configuration" error naming the first  *)
(* such field in the order dnsAccount, betaAccount, gammaAccount,          *)
(* prodAccount, domainName.                                                *)
C1_FirstMissingFieldReported ==
    MissingPositions # {} =>
        /\ pc \in {"config", "validate", "error"}
        /\ pc = "validate" => fieldIdx <= Min(MissingPositions)
        /\ pc = "error" =>
              /\ error.message = "Missing required configuration"
              /\ error.field = FieldOrder[Min(MissingPositions)]
              /\ error.contextKey = error.field

\* gammaAccount is empty in the context and unset in the environment, and
\* domainName is missing as well: the error names gammaAccount.
C1_Witness ==
    /\ pc = "error"
    /\ context[gammaAccount] = Str("")
    /\ env[GAMMA_ACCOUNT_ID] = Undefined
    /\ ~Truthy(Resolved(domainName))
    /\ error.field = gammaAccount

(* C2: validation precedes provisioning.  No stack is declared, no         *)
(* dependency added and synth not called unless all five required fields   *)
(* passed validation; a failed validation leaves zero stacks and no synth; *)
(* synth is called at most once, and only after the four stacks and their  *)
(* three dependencies are declared; a finished run has called it once.     *)
C2_ValidationBeforeProvisioning ==
    /\ (Declared # {} \/ dependencies # {} \/ synthCount > 0) =>
          /\ \A i \in DOMAIN FieldOrder : Truthy(config[FieldOrder[i]])
          /\ fieldIdx > Len(FieldOrder)
          /\ error = NoError
    /\ pc = "error" => Declared = {} /\ dependencies = {} /\ synthCount = 0
    /\ synthCount \in {0, 1}
    /\ synthCount = 1 => Declared = StackIds /\ dependencies = AllDependencies
    /\ pc = "done" => synthCount = 1

\* A run with a valid configuration has finished.
C2_Witness ==
    /\ pc = "done"
    /\ synthCount = 1
    /\ Declared = StackIds
    /\ \A i \in DOMAIN FieldOrder : Truthy(config[FieldOrder[i]])

(* C3: the declared stacks publish the listed outputs.  The DNS stack      *)
(* declares HostedZoneId (the zone's ID), CrossAccountRoleArn (the role's  *)
(* ARN), HostedZoneName and NameServers; every website stack declares      *)
(* BucketName, DistributionId, DistributionDomainName (attributes of its   *)
(* own bucket and distribution) and WebsiteUrl = "https://" followed by    *)
(* its own domain name.                                                    *)
C3_OutputsPublished ==
    /\ "DnsStack" \in Declared =>
          LET d == stacks["DnsStack"] IN
          /\ DOMAIN d.outputs =
                {"HostedZoneId", "HostedZoneName", "CrossAccountRoleArn", "NameServers"}
          /\ d.outputs["HostedZoneId"].value = d.hostedZone.hostedZoneId
          /\ d.outputs["HostedZoneName"].value = config[domainName].str
          /\ d.outputs["CrossAccountRoleArn"].value = d.crossAccountRole.roleArn
    /\ \A id \in DeclaredWebsites :
          LET w == stacks[id]
              own == IF id = "BetaStaticWebsiteStack"
                       THEN "beta." \o config[domainName].str
                     ELSE IF id = "GammaStaticWebsiteStack"
                       THEN "gamma." \o config[domainName].str
                     ELSE config[domainName].str
          IN
          /\ DOMAIN w.outputs =
                {"BucketName", "DistributionId", "DistributionDomainName", "WebsiteUrl"}
          /\ w.outputs["BucketName"].value = Token(id, "SiteBucket", "Ref")
          /\ w.outputs["DistributionId"].value = Token(id, "Distribution", "Id")
          /\ w.outputs["DistributionDomainName"].value =
                Token(id, "Distribution", "DomainName")
          /\ w.domainName = own
          /\ w.outputs["WebsiteUrl"].value = "https://" \o own
    /\ pc = "done" => Declared = StackIds

\* All four stacks are declared and beta's URL is on the beta subdomain.
C3_Witness ==
    /\ pc = "done"
    /\ Declared = StackIds
    /\ stacks["BetaStaticWebsiteStack"].outputs["WebsiteUrl"].value
          = "https://beta.example.com"
    /\ stacks["ProdStaticWebsiteStack"].outputs["WebsiteUrl"].value
          = "https://example.com"

(* C4: once the configuration is read, each required field holds the       *)
(* context value when that is truthy and otherwise the value of its        *)
(* environment variable; region holds the context value when truthy and    *)
(* otherwise "us-east-1" whatever the environment holds, and no validation *)
(* error ever names region.                                                *)
C4_ContextBeforeEnvironment ==
    pc # "config" =>
        /\ \A i \in DOMAIN FieldOrder : config[FieldOrder[i]] = Resolved(FieldOrder[i])
        /\ config[region] =
              IF Truthy(context[region]) THEN context[region] ELSE Str("us-east-1")
        /\ error # NoError => error.field # region

\* An empty context value fell through to the environment, a truthy one
\* won over it, and region ignored the environment.
C4_Witness ==
    /\ pc = "done"
    /\ context[dnsAccount] = Str("") /\ env[DNS_ACCOUNT_ID] = Str("222222222222")
    /\ config[dnsAccount] = Str("222222222222")
    /\ context[betaAccount] = Str("111111111111")
    /\ env[BETA_ACCOUNT_ID] = Str("222222222222")
    /\ config[betaAccount] = Str("111111111111")
    /\ context[region] = Str("") /\ env[REGION] = Str("ap-south-1")
    /\ config[region] = Str("us-east-1")

(* C5: the environment variable named in the missing-configuration error   *)
(* is one the script reads for that field: setting it and running again    *)
(* makes the field pass validation.                                        *)
C5_NamedVariableIsRead ==
    pc = "error" =>
        Truthy(Config(context, SetEnv(env, error.envVar, Str("222222222222")))[error.field])

\* Every required field is absent: the error names DNSACCOUNT.
C5_FailingInput ==
    /\ pc = "error"
    /\ \A k \in DOMAIN context : context[k] = Undefined
    /\ \A n \in DOMAIN env : env[n] = Undefined
    /\ error.envVar = <<"D", "N", "S", "A", "C", "C", "O", "U", "N", "T">>

\* The deployment orders of the four stacks.
Orders ==
    {o \in [1..Cardinality(StackIds) -> StackIds] :
        \A i, j \in DOMAIN o : i # j => o[i] # o[j]}

\* An order respects the dependencies when every stack comes after the
\* stacks it depends on.
Respects(o, deps) ==
    \A d \in deps :
        \E i, j \in DOMAIN o : o[i] = d[2] /\ o[j] = d[1] /\ i < j

(* C6: every dependency the script declares goes from a website stack to   *)
(* the DNS stack (none between website stacks, none from the DNS stack, no *)
(* cycle); when synthesis starts each of the three website stacks depends  *)
(* on the DNS stack, so every deployment order that respects the           *)
(* dependencies deploys the DNS stack first.                               *)
C6_WebsitesDependOnDns ==
    /\ \A d \in dependencies : d[1] \in WebsiteStackIds /\ d[2] = "DnsStack"
    /\ pc \in {"synth", "done"} =>
          /\ \A w \in WebsiteStackIds : <<w, "DnsStack">> \in dependencies
          /\ \E o \in Orders : Respects(o, dependencies)
          /\ \A o \in Orders : Respects(o, dependencies) => o[1] = "DnsStack"

\* The three dependencies are declared and synthesis has run.
C6_Witness ==
    /\ pc = "done"
    /\ Cardinality(dependencies) = 3
    /\ <<"ProdStaticWebsiteStack", "DnsStack">> \in dependencies

\* The accounts whose principals may assume the cross-account role.
TrustedAccounts ==
    {stacks["DnsStack"].crossAccountRole.assumedBy[i].accountId :
        i \in DOMAIN stacks["DnsStack"].crossAccountRole.assumedBy}

(* C7: the principals allowed to assume the cross-account role are account *)
(* principals of exactly the beta, gamma and prod accounts: the account of *)
(* every declared website stack is trusted, and the DNS account is trusted *)
(* only when it is one of the three.                                       *)
C7_TrustedAccountsExact ==
    "DnsStack" \in Declared =>
        /\ \A i \in DOMAIN stacks["DnsStack"].crossAccountRole.assumedBy :
              stacks["DnsStack"].crossAccountRole.assumedBy[i].principal
                  = "AccountPrincipal"
        /\ TrustedAccounts =
              {config[betaAccount].str, config[gammaAccount].str,
               config[prodAccount].str}
        /\ \A w \in DeclaredWebsites : stacks[w].account \in TrustedAccounts
        /\ stacks["DnsStack"].account = config[dnsAccount].str
        /\ config[dnsAccount].str \notin
              {config[betaAccount].str, config[gammaAccount].str,
               config[prodAccount].str}
              => stacks["DnsStack"].account \notin TrustedAccounts

\* The DNS account differs from the website accounts, which are not all
\* the same, and is not trusted.
C7_Witness ==
    /\ pc = "done"
    /\ stacks["DnsStack"].account = "111111111111"
    /\ stacks["BetaStaticWebsiteStack"].account = "222222222222"
    /\ stacks["GammaStaticWebsiteStack"].account = "222222222222"
    /\ stacks["ProdStaticWebsiteStack"].account = "222222222222"
    /\ TrustedAccounts = {"222222222222"}

MutatingActions == {"route53:ChangeResourceRecordSets"}

ReadOnlyActions == {"route53:GetHostedZone", "route53:ListHostedZones"}

(* C8: the role has exactly two statements, both ALLOW.  The only one with *)
(* a record-modifying action has as resources the stack's hosted zone ARN  *)
(* and the change/* ARN, nothing else; the only one with resource "*" has  *)
(* read-only actions only.                                                 *)
C8_MutationScopedToZone ==
    "DnsStack" \in Declared =>
        LET policy == stacks["DnsStack"].crossAccountRole.policy
            zoneArn == stacks["DnsStack"].hostedZone.hostedZoneArn
            mutating == {i \in DOMAIN policy :
                            Range(policy[i].actions) \cap MutatingActions # {}}
            wildcard == {i \in DOMAIN policy : "*" \in Range(policy[i].resources)}
        IN
        /\ Len(policy) = 2
        /\ \A i \in DOMAIN policy : policy[i].effect = "ALLOW"
        /\ Cardinality(mutating) = 1
        /\ \A i \in mutating :
              Range(policy[i].resources) = {zoneArn, "arn:aws:route53:::change/*"}
        /\ Cardinality(wildcard) = 1
        /\ \A i \in wildcard : Range(policy[i].actions) \subseteq ReadOnlyActions
        /\ mutating \cap wildcard = {}

\* The DNS stack is declared with its role and policy.
C8_Witness ==
    /\ "DnsStack" \in Declared
    /\ Len(stacks["DnsStack"].crossAccountRole.policy) = 2
    /\ "route53:ChangeResourceRecordSets" \in
          Range(stacks["DnsStack"].crossAccountRole.policy[1].actions)

\* The stage and domain the property expects of each website stack.
ExpectedStage(id) ==
    CASE id = "BetaStaticWebsiteStack"  -> "beta"
      [] id = "GammaStaticWebsiteStack" -> "gamma"
      [] id = "ProdStaticWebsiteStack"  -> "prod"

ExpectedAccountKey(id) ==
    CASE id = "BetaStaticWebsiteStack"  -> betaAccount
      [] id = "GammaStaticWebsiteStack" -> gammaAccount
      [] id = "ProdStaticWebsiteStack"  -> prodAccount

ExpectedDomain(id, d) ==
    CASE id = "BetaStaticWebsiteStack"  -> "beta." \o d
      [] id = "GammaStaticWebsiteStack" -> "gamma." \o d
      [] id = "ProdStaticWebsiteStack"  -> d

(* C9: once the script has declared its stacks there are exactly three     *)
(* website stacks, with stages beta, gamma, prod and domain names beta.D,  *)
(* gamma.D and D; each imports the DNS stack's hosted zone under the name  *)
(* D; each stack's certificate domain, distribution alias and A-record     *)
(* name equal its domain name; the domain names are pairwise distinct, and *)
(* the bucket names <stage>-website-<account> are pairwise distinct.       *)
C9_ThreeWebsiteStacks ==
    LET d == config[domainName].str IN
    /\ \A id \in DeclaredWebsites :
          LET w == stacks[id] IN
          /\ w.kind = "StaticWebsiteStack"
          /\ w.stageName = ExpectedStage(id)
          /\ w.domainName = ExpectedDomain(id, d)
          /\ w.hostedZone.hostedZoneId = stacks["DnsStack"].hostedZone.hostedZoneId
          /\ w.hostedZone.zoneName = d
          /\ stacks["DnsStack"].hostedZone.zoneName = d
          /\ w.certificate.domainName = w.domainName
          /\ w.distribution.domainNames = <<w.domainName>>
          /\ w.aliasRecord.recordName = w.domainName
          /\ w.bucket.bucketName = w.stageName \o "-website-" \o w.account
          /\ w.account = config[ExpectedAccountKey(id)].str
    /\ \A a, b \in DeclaredWebsites :
          a # b => /\ stacks[a].domainName # stacks[b].domainName
                   /\ stacks[a].bucket.bucketName # stacks[b].bucket.bucketName
    /\ pc \in {"betaDependency", "gammaDependency", "prodDependency", "synth", "done"} =>
          /\ DeclaredWebsites = WebsiteStackIds
          /\ {id \in Declared : stacks[id].kind = "StaticWebsiteStack"} = WebsiteStackIds

\* The three stages share one account and still have three bucket names.
C9_Witness ==
    /\ pc = "done"
    /\ config[betaAccount] = config[gammaAccount]
    /\ config[gammaAccount] = config[prodAccount]
    /\ Cardinality({stacks[id].bucket.bucketName : id \in WebsiteStackIds}) = 3
    /\ Cardinality({stacks[id].domainName : id \in WebsiteStackIds}) = 3

====
